---- MODULE Spec2Model ----
(***************************************************************************)
(* Inventory / point-of-sale terminal program (src/da2.py).                *)
(*                                                                         *)
(* The program is a single sequential loop blocked on operator input.      *)
(* One step of the model is one line of input read at one prompt, together *)
(* with everything the program does until it blocks on the next prompt.    *)
(*                                                                         *)
(* Text is a sequence of one-character strings, so that strip(), lower(),  *)
(* upper(), int(), float() and to_datetime() are computed character by     *)
(* character.  Decimal amounts (mrp, prices, totals) are exact fixed-point *)
(* numbers in units of 1/Scale; the binary rounding of Python floats is    *)
(* not modelled.  Instants are integers yyyymmddhh.                        *)
(*                                                                         *)
(* A stored file is the sequence of its rows; the expiry cells of          *)
(* inventory.csv are text, parsed at the load and formatted by to_csv.     *)
(* An exception that no handler catches ends the run at pc = "crashed";    *)
(* 'exit' at the role prompt ends it at pc = "done".                       *)
(***************************************************************************)
EXTENDS Integers, Sequences, FiniteSets, TLC

VARIABLES
    pc,             \* the prompt the program is blocked on
    now,            \* the wall clock, datetime.now()
    ticks,          \* number of clock advances so far
    inventory,      \* main's inventory DataFrame: sequence of rows
    sales,          \* main's sales DataFrame: sequence of ledger lines
    invFile,        \* rows stored in inventory.csv (expiry cells as text)
    salesFile,      \* lines stored in sales.csv
    username,       \* main's username, once read
    bill_id,        \* sales_flow: bill_id
    new_sales,      \* sales_flow: new_sales (the basket)
    product_id,     \* sales_flow / update_product: the parsed product id
    product_record, \* sales_flow: the row copied at product resolution
    current_date,   \* sales_flow: datetime.now() taken at product resolution
    pid,            \* update_product: pid
    field_choice,   \* update_product: field_choice
    out,            \* what the last step printed and which files it wrote
    start,          \* history: inventory, stored files at the start of the session
    sessions,       \* number of checkout sessions that added a line
    edits           \* number of successful updates

vars == <<pc, now, ticks, inventory, sales, invFile, salesFile, username,
          bill_id, new_sales, product_id, product_record, current_date,
          pid, field_choice, out, start, sessions, edits>>

-----------------------------------------------------------------------------
(* Bounds of the model.                                                    *)

\* operations of one run that change the inventory: checkout sessions that
\* add a line to their basket, and successful updates
MaxOps == 2
\* successful updates of one run
MaxEdits == 1
\* clock advances (of one day) in one run
MaxTicks == 1
\* lines added to the basket in one checkout session
MaxLines == 2

-----------------------------------------------------------------------------
(* Text: str.strip, str.lower, str.upper, int, float, pd.to_datetime.      *)

UpperLetters == <<"A","B","C","D","E","F","G","H","I","J","K","L","M",
                  "N","O","P","Q","R","S","T","U","V","W","X","Y","Z">>
LowerLetters == <<"a","b","c","d","e","f","g","h","i","j","k","l","m",
                  "n","o","p","q","r","s","t","u","v","w","x","y","z">>
Digits == <<"0","1","2","3","4","5","6","7","8","9">>

IndexIn(seq, c) == CHOOSE i \in 1..Len(seq) : seq[i] = c
Occurs(seq, c) == \E i \in 1..Len(seq) : seq[i] = c

LowerChar(c) == IF Occurs(UpperLetters, c) THEN LowerLetters[IndexIn(UpperLetters, c)] ELSE c
UpperChar(c) == IF Occurs(LowerLetters, c) THEN UpperLetters[IndexIn(LowerLetters, c)] ELSE c

Lower(s) == [i \in 1..Len(s) |-> LowerChar(s[i])]
Upper(s) == [i \in 1..Len(s) |-> UpperChar(s[i])]

IsSpace(c) == c = " "

RECURSIVE LStrip(_)
LStrip(s) == IF s # <<>> /\ IsSpace(Head(s)) THEN LStrip(Tail(s)) ELSE s

RECURSIVE RStrip(_)
RStrip(s) == IF s # <<>> /\ IsSpace(s[Len(s)]) THEN RStrip(SubSeq(s, 1, Len(s) - 1)) ELSE s

Strip(s) == RStrip(LStrip(s))

IsDigit(c) == Occurs(Digits, c)
DigitVal(c) == IndexIn(Digits, c) - 1
AllDigits(s) == s # <<>> /\ \A i \in 1..Len(s) : IsDigit(s[i])

RECURSIVE DigitsVal(_)
DigitsVal(s) == IF s = <<>> THEN 0 ELSE 10 * DigitsVal(SubSeq(s, 1, Len(s) - 1)) + DigitVal(s[Len(s)])

HasSign(s) == s # <<>> /\ Head(s) \in {"-", "+"}
Unsigned(s) == IF HasSign(s) THEN Tail(s) ELSE s
Signed(s, v) == IF s # <<>> /\ Head(s) = "-" THEN 0 - v ELSE v

\* int(text): surrounding blanks dropped, an optional sign, one or more digits;
\* anything else raises ValueError.
IntParses(text) == AllDigits(Unsigned(Strip(text)))
IntValue(text) == Signed(Strip(text), DigitsVal(Unsigned(Strip(text))))

\* fixed-point unit of the decimal amounts: 1 = 1/Scale
Scale == 100000

PointAt(s) == IF Occurs(s, ".") THEN IndexIn(s, ".") ELSE Len(s) + 1
IntPart(s) == SubSeq(s, 1, PointAt(s) - 1)
FracPart(s) == SubSeq(s, PointAt(s) + 1, Len(s))

RECURSIVE FracVal(_, _)
FracVal(s, unit) == IF s = <<>> THEN 0 ELSE DigitVal(Head(s)) * (unit \div 10) + FracVal(Tail(s), unit \div 10)

\* float(text): surrounding blanks dropped, an optional sign, digits with at
\* most one point and at least one digit; anything else raises ValueError.
FloatParses(text) ==
    LET u == Unsigned(Strip(text)) IN
    /\ \A i \in 1..Len(IntPart(u)) : IsDigit(IntPart(u)[i])
    /\ \A i \in 1..Len(FracPart(u)) : IsDigit(FracPart(u)[i])
    /\ Len(IntPart(u)) + Len(FracPart(u)) >= 1
FloatValue(text) ==
    LET u == Unsigned(Strip(text)) IN
    Signed(Strip(text), DigitsVal(IntPart(u)) * Scale + FracVal(FracPart(u), Scale))

\* An instant: yyyymmddhh.
Stamp(y, m, d, h) == ((y * 100 + m) * 100 + d) * 100 + h

\* pd.to_datetime(text) for a single string: "" is NaT (absent), "YYYY-MM-DD"
\* is midnight of that day, anything else raises a ValueError.
DateShape(s) ==
    /\ Len(s) = 10
    /\ s[5] = "-" /\ s[8] = "-"
    /\ \A i \in {1, 2, 3, 4, 6, 7, 9, 10} : IsDigit(s[i])
    /\ DigitsVal(SubSeq(s, 6, 7)) \in 1..12
    /\ DigitsVal(SubSeq(s, 9, 10)) \in 1..31
DateParses(text) == text = <<>> \/ DateShape(text)
DateValue(text) ==
    IF text = <<>> THEN <<>>
    ELSE <<Stamp(DigitsVal(SubSeq(text, 1, 4)), DigitsVal(SubSeq(text, 6, 7)),
                 DigitsVal(SubSeq(text, 9, 10)), 0)>>

\* rich console markup, as Console.print renders a str (a Panel's text, a
\* Table cell): "[" followed by a lower-case letter, "#", "/" or "@" and
\* closed by the next "]" with no "[" in between is a tag.  "[/]" closes the
\* innermost open tag, "[/name]" the innermost open tag of that name; a
\* closing tag that finds none raises MarkupError.
IsTagStart(c) == Occurs(LowerLetters, c) \/ c \in {"#", "/", "@"}
TagEnd(s) ==
    IF \E k \in 3..Len(s) : s[k] = "]" /\ \A j \in 2..(k - 1) : s[j] \notin {"[", "]"}
    THEN CHOOSE k \in 3..Len(s) : s[k] = "]" /\ \A j \in 2..(k - 1) : s[j] \notin {"[", "]"}
    ELSE 0
IsTag(s) == Len(s) >= 3 /\ s[1] = "[" /\ IsTagStart(s[2]) /\ TagEnd(s) > 0
Opened(open, name) == \E i \in 1..Len(open) : open[i] = name
LastOpened(open, name) ==
    CHOOSE i \in 1..Len(open) : open[i] = name /\ \A j \in (i + 1)..Len(open) : open[j] # name
Without(open, i) == SubSeq(open, 1, i - 1) \o SubSeq(open, i + 1, Len(open))

RECURSIVE MarkupRaises(_, _)
MarkupRaises(s, open) ==
    IF s = <<>> THEN FALSE
    ELSE IF ~IsTag(s) THEN MarkupRaises(Tail(s), open)
    ELSE LET k == TagEnd(s)
             body == SubSeq(s, 2, k - 1)
             rest == SubSeq(s, k + 1, Len(s))
         IN  IF body[1] # "/" THEN MarkupRaises(rest, Append(open, body))
             ELSE IF Len(body) = 1
                  THEN open = <<>> \/ MarkupRaises(rest, Without(open, Len(open)))
             ELSE ~Opened(open, Tail(body))
                  \/ MarkupRaises(rest, Without(open, LastOpened(open, Tail(body))))

\* a str printed as it is
PrintRaises(text) == MarkupRaises(text, <<>>)
\* the lines of one Panel
Lines(a, b) == a \o <<"\n">> \o b
\* f"Product name: [bold green]{name}[/bold green]" (line 305)
BoldGreen(text) ==
    <<"[","b","o","l","d"," ","g","r","e","e","n","]">> \o text
    \o <<"[","/","b","o","l","d"," ","g","r","e","e","n","]">>

-----------------------------------------------------------------------------
(* Texts the operator types.                                               *)

T_exit == <<"e","x","i","t">>
T_EXIT == <<"E","x","i","t">>
T_admin == <<"a","d","m","i","n">>
T_Admin == <<"A","d","m","i","n">>
T_user == <<"u","s","e","r">>
T_user1 == <<"u","s","e","r","1">>
T_USER1 == <<" ","U","S","E","R","1">>
T_bob == <<"b","o","b">>
T_abc == <<"a","b","c">>
T_Soap == <<"S","o","a","p">>
T_Pen == <<"P","e","n">>
T_Ink == <<" ","I","n","k">>
T_bath == <<"b","a","t","h">>
T_desk == <<"d","e","s","k">>
T_past == <<"2","0","2","6","-","1","1","-","0","4">>
T_soon == <<"2","0","2","6","-","1","1","-","0","6">>
T_tag == <<"[","/","]">>
T_badday == <<"2","0","2","6","-","1","3","-","4","0">>

RoleInputs == { <<"A">>, <<"a">>, <<" ","S">>, <<"x">>, T_EXIT }
AdminUserInputs == { T_admin, T_Admin, T_EXIT }
AdminPassInputs == { T_admin, T_abc, T_exit }
SalesUserInputs == { T_USER1, T_bob, T_exit }
SalesPassInputs == { T_user, T_abc, T_EXIT }
SalePidInputs == { <<"1">>, <<" ","2">>, <<"9">>, <<"x">>, T_EXIT }
SaleQtyInputs == { <<"3">>, <<" ","4">>, <<"0">>, <<"9","9">>, <<"2",".","5">>, T_exit }
AdminMenuInputs == { <<"1">>, <<"2">>, <<"3">>, <<" ","4">>, <<"0">>, <<"9">>, T_EXIT }
AccessInputs == { <<"1">>, <<"2">>, <<"0">>, <<"7">> }
AccessPidInputs == { <<"1">>, <<"9">>, <<"x">>, T_exit }
UpdPidInputs == { <<"1">>, <<" ","2">>, <<"9">>, <<"x">>, T_EXIT }
UpdFieldInputs == { <<"1">>, <<"2">>, <<"3">>, <<"4">>, <<" ","5">>, <<"6">>, T_exit }
\* the new value, by the field chosen
UpdValueInputs(field) ==
    IF field \in { <<"1">>, <<"3">> } THEN { T_Ink, T_tag, T_EXIT }
    ELSE IF field = <<"2">> THEN { <<"2","0">>, <<"-","1">>, <<"2",".","5">>, T_exit }
    ELSE IF field = <<"4">> THEN { T_past, <<>>, T_badday, T_abc }
    ELSE { <<" ","2",".","5">>, T_abc, <<>> }
SaleAnotherInputs == { <<"Y">>, <<" ","y">>, <<"n">> }

-----------------------------------------------------------------------------
(* DataFrame rows and column operations.                                   *)

Row(id, name, qty, type, expiry, mrp) ==
    [Product_id |-> id, product_name |-> name, total_quantity |-> qty,
     product_type |-> type, expiry_date |-> expiry, mrp |-> mrp]

\* inventory['Product_id'] == id
ProductFilter(inv, id) == { i \in 1..Len(inv) : inv[i].Product_id = id }
\* inventory[product_filter].iloc[0]
FirstRow(inv, id) ==
    inv[CHOOSE i \in ProductFilter(inv, id) : \A j \in ProductFilter(inv, id) : i <= j]
\* mutant: the row filter forgotten, the whole column is assigned
SetColumnEveryRow(inv, id, col, v) ==
    [i \in 1..Len(inv) |-> [inv[i] EXCEPT ![col] = v]]
\* inventory.loc[product_filter, col] = v
SetColumn(inv, id, col, v) ==
    [i \in 1..Len(inv) |-> IF i \in ProductFilter(inv, id) THEN [inv[i] EXCEPT ![col] = v] ELSE inv[i]]

\* A cell of the 'expiry date' column as to_csv writes it: nothing for NaT,
\* "YYYY-MM-DD" for a date (every date of the column is a midnight).
NumText(n, width) == [i \in 1..width |-> Digits[((n \div (10 ^ (width - i))) % 10) + 1]]
FormatDate(cell) ==
    IF cell = <<>> THEN <<>>
    ELSE NumText(cell[1] \div 1000000, 4) \o <<"-">> \o NumText((cell[1] \div 10000) % 100, 2)
         \o <<"-">> \o NumText((cell[1] \div 100) % 100, 2)

\* mutant: the dates written day first, "DD-MM-YYYY"
ToCsvDayFirst(frame) ==
    LET DayFirst(cell) ==
            IF cell = <<>> THEN <<>>
            ELSE NumText((cell[1] \div 100) % 100, 2) \o <<"-">>
                 \o NumText((cell[1] \div 10000) % 100, 2) \o <<"-">>
                 \o NumText(cell[1] \div 1000000, 4)
    IN  [i \in 1..Len(frame) |->
            IF "expiry_date" \in DOMAIN frame[i]
            THEN [frame[i] EXCEPT !.expiry_date = DayFirst(@)]
            ELSE frame[i]]
\* DataFrame.to_csv(file, index=False): the whole file is replaced by the rows
\* of the frame, in order; a datetime column is written as text.
ToCsv(frame) ==
    [i \in 1..Len(frame) |->
        IF "expiry_date" \in DOMAIN frame[i]
        THEN [frame[i] EXCEPT !.expiry_date = FormatDate(@)]
        ELSE frame[i]]

\* pd.read_csv followed by pd.to_datetime(..., errors='coerce') on the
\* 'expiry date' column (lines 441-446): a cell that is not a date is NaT.
CoerceDate(text) == IF DateShape(text) THEN DateValue(text) ELSE <<>>
ReadInventory(file) ==
    [i \in 1..Len(file) |-> [file[i] EXCEPT !.expiry_date = CoerceDate(@)]]

NoRecord == Row(0, <<>>, 0, <<>>, <<>>, 0)

-----------------------------------------------------------------------------
(* sales_flow: the computations.                                           *)

RECURSIVE MaxSalesId(_)
MaxSalesId(s) ==
    IF Len(s) = 1 THEN s[1].sales_id
    ELSE LET m == MaxSalesId(Tail(s)) IN IF s[1].sales_id > m THEN s[1].sales_id ELSE m

NextBillId(s) == IF s = <<>> THEN 1 ELSE MaxSalesId(s) + 1

NotNull(cell) == cell # <<>>
\* mutant: the comparison the wrong way round
IsExpiredFlipped(rec, cur) == NotNull(rec.expiry_date) /\ cur < rec.expiry_date[1]
IsExpired(rec, cur) == NotNull(rec.expiry_date) /\ cur > rec.expiry_date[1]

\* mutant: a quantity of 0 accepted
QtyNotNegative(qty) == qty >= 0
QtyPositive(qty) == qty > 0
\* mutant: the stock check forgotten
QtyAvailableUnchecked(qty, available_qty) == TRUE
\* mutant: one unit more than the stock accepted
QtyAvailablePlusOne(qty, available_qty) == ~(qty > available_qty + 1)
QtyAvailable(qty, available_qty) == ~(qty > available_qty)

\* mutant: the discount forgotten
StorePriceNoDiscount(mrp) == mrp
StorePrice(mrp) == (9 * mrp) \div 10
TotalPrice(store_price, qty) == store_price * qty

\* mutant: the product id written where the bill id belongs
SaleRecordProductAsBill(bid, id, rec, qty, cur, rep) ==
    [sales_id |-> id, product_id |-> id, product_name |-> rec.product_name,
     mrp |-> rec.mrp, store_price |-> StorePrice(rec.mrp), quantity_purchased |-> qty,
     date_of_purchase |-> cur, total_price |-> TotalPrice(StorePrice(rec.mrp), qty),
     billed_by |-> rep]
SaleRecord(bid, id, rec, qty, cur, rep) ==
    [sales_id |-> bid, product_id |-> id, product_name |-> rec.product_name,
     mrp |-> rec.mrp, store_price |-> StorePrice(rec.mrp), quantity_purchased |-> qty,
     date_of_purchase |-> cur, total_price |-> TotalPrice(StorePrice(rec.mrp), qty),
     billed_by |-> rep]

\* mutant: the quantity sold stored instead of the quantity left
DecrementStoresSold(inv, id, available_qty, qty) ==
    SetColumn(inv, id, "total_quantity", qty)
Decrement(inv, id, available_qty, qty) ==
    SetColumn(inv, id, "total_quantity", available_qty - qty)

RECURSIVE SumTotal(_)
SumTotal(lines) == IF lines = <<>> THEN 0 ELSE lines[1].total_price + SumTotal(Tail(lines))

Subtotal(lines) == SumTotal(lines)
\* mutant: a tax rate of 0.5
TaxTenfold(subtotal) == (5 * subtotal) \div 10
Tax(subtotal) == (5 * subtotal) \div 100
FinalTotal(subtotal, tax) == subtotal + tax

\* f"{x:.2f}": the amount in hundredths, rounded half to even.
Fmt2(x) ==
    LET u == Scale \div 100
        q == x \div u
        r == x % u
    IN  IF 2 * r > u \/ (2 * r = u /\ q % 2 = 1) THEN q + 1 ELSE q

\* pd.concat([sales, new_sales_df], ignore_index=True)
Concat(s, lines) == s \o lines

\* valid_users = {"user1": "user", "user2": "user"}
ValidUsers == { <<T_user1, T_user>>, <<<<"u","s","e","r","2">>, T_user>> }
SalesLoginOk(user, pass) == <<user, pass>> \in ValidUsers
\* mutant: the admin login compared like the sales login, letter case ignored
AdminLoginOkAnyCase(user, pass) == Lower(user) = T_admin /\ Lower(pass) = T_admin
AdminLoginOk(user, pass) == user = T_admin /\ pass = T_admin

-----------------------------------------------------------------------------
(* The state after main has loaded both files (lines 441-446).             *)

Clock0 == Stamp(2026, 11, 5, 9)
OneDay == Stamp(0, 0, 1, 0)

\* inventory.csv as found at startup: product ids are unique, quantities are
\* non-negative integers, the expiry cells are text.  The file may be absent
\* (it is then created with no rows), and an expiry cell may hold text that
\* is not a date.
BaseFile ==
    << Row(1, T_Soap, 3, T_bath, T_soon, 100 * Scale),
       Row(2, T_Pen, 10, T_desk, <<>>, 20 * Scale) >>
OddDateFile ==
    << Row(1, T_Soap, 3, T_bath, T_soon, 100 * Scale),
       Row(2, T_Pen, 10, T_desk, T_abc, 20 * Scale) >>
InitFiles == { BaseFile, OddDateFile, <<>> }

\* sales.csv as found at startup: empty, or lines of earlier runs.
OldLine(sid, qty) ==
    [sales_id |-> sid, product_id |-> 2, product_name |-> T_Pen, mrp |-> 20 * Scale,
     store_price |-> 18 * Scale, quantity_purchased |-> qty,
     date_of_purchase |-> Stamp(2026, 11, 1, 10), total_price |-> 18 * Scale * qty,
     billed_by |-> T_user1]
InitLedgers == { <<>>, <<OldLine(4, 1), OldLine(2, 2)>> }

\* What a step prints: nothing, an error panel, an information panel, a table
\* of rows, the receipt with its bill summary, or the traceback of an
\* exception nobody caught; and the files the step wrote.
Say(kind, msg) ==
    [bill_id |-> 0, kind |-> kind, msg |-> msg,
     lines |-> <<>>, subtotal |-> 0, tax |-> 0, final_total |-> 0, wrote |-> {}]
Silent == Say("none", "")
Writing(o, files) == [o EXCEPT !.wrote = files]

\* An exception no handler catches ends the process with a traceback.
Crash ==
    /\ pc' = "crashed"
    /\ out' = Say("traceback", "MarkupError")

NoStart == [inventory |-> <<>>, invFile |-> <<>>, salesFile |-> <<>>]

Init ==
    /\ pc = "role"
    /\ now = Clock0
    /\ ticks = 0
    /\ invFile \in InitFiles
    /\ inventory = ReadInventory(invFile)
    /\ sales \in InitLedgers
    /\ salesFile = sales
    /\ username = <<>>
    /\ bill_id = 0
    /\ new_sales = <<>>
    /\ product_id = 0
    /\ product_record = NoRecord
    /\ current_date = 0
    /\ pid = 0
    /\ field_choice = <<>>
    /\ out = Silent
    /\ start = NoStart
    /\ sessions = 0
    /\ edits = 0

clockVars == <<now, ticks>>
storeVars == <<inventory, sales, invFile, salesFile>>
saleVars == <<bill_id, new_sales, product_id, product_record, current_date>>
editVars == <<pid, field_choice, edits>>
histVars == <<start, sessions>>

-----------------------------------------------------------------------------
(* main: the login screen (lines 449-501).                                 *)

\* Control is back at the top of main's loop.  main's username is read again
\* before any use, so its old value is dropped here.
BackToLogin ==
    /\ pc' = "role"
    /\ username' = <<>>

RolePromptOn(inp) ==
    /\ pc = "role"
    /\ LET user_type == Lower(Strip(inp)) IN
       IF user_type = T_exit THEN
           /\ pc' = "done"
           /\ out' = Say("info", "Exiting program. Goodbye!")
       ELSE IF user_type = <<"a">> THEN
           /\ pc' = "admin_user"
           /\ out' = Silent
       ELSE IF user_type = <<"s">> THEN
           /\ pc' = "sales_user"
           /\ out' = Silent
       ELSE
           /\ pc' = "role"
           /\ out' = Say("error", "Invalid option.")
    /\ UNCHANGED <<clockVars, storeVars, saleVars, histVars, username, editVars>>
RolePrompt == \E inp \in RoleInputs : RolePromptOn(inp)

SalesUserOn(inp) ==
    /\ pc = "sales_user"
    /\ IF Lower(Strip(inp)) = T_exit THEN
           /\ BackToLogin
           /\ out' = Silent
       ELSE
           /\ username' = Lower(Strip(inp))
           /\ pc' = "sales_pass"
           /\ out' = Silent
    /\ UNCHANGED <<clockVars, storeVars, saleVars, histVars, editVars>>
SalesUser == \E inp \in SalesUserInputs : SalesUserOn(inp)

\* Entering sales_flow (lines 266-274): the bill id is computed from main's
\* sales frame, the basket starts empty.
SalesPassOn(inp) ==
    /\ pc = "sales_pass"
    /\ LET password == Lower(Strip(inp)) IN
       IF password = T_exit THEN
           /\ BackToLogin
           /\ out' = Silent
           /\ UNCHANGED <<saleVars, histVars>>
       ELSE IF SalesLoginOk(username, password) THEN
           /\ UNCHANGED sessions
           /\ start' = [inventory |-> inventory, invFile |-> invFile, salesFile |-> salesFile]
           /\ bill_id' = NextBillId(sales)
           /\ new_sales' = <<>>
           /\ pc' = "sale_pid"
           /\ out' = Silent
           /\ UNCHANGED <<username, product_id, product_record, current_date>>
       ELSE
           /\ BackToLogin
           /\ out' = Say("error", "Invalid sales credentials.")
           /\ UNCHANGED <<saleVars, histVars>>
    /\ UNCHANGED <<clockVars, storeVars, editVars>>
SalesPass == \E inp \in SalesPassInputs : SalesPassOn(inp)

-----------------------------------------------------------------------------
(* sales_flow (lines 276-408) and its return to main (line 496).           *)

\* mutant: the save after sales_flow forgotten
ReturnFromSalesUnsaved ==
    /\ UNCHANGED invFile
    /\ BackToLogin
    /\ bill_id' = 0
    /\ new_sales' = <<>>
    /\ product_id' = 0
    /\ product_record' = NoRecord
    /\ current_date' = 0
    /\ start' = NoStart
    /\ UNCHANGED sessions
\* sales_flow returns: its locals are gone, main saves the inventory.
ReturnFromSales ==
    /\ invFile' = ToCsv(inventory)
    /\ BackToLogin
    /\ bill_id' = 0
    /\ new_sales' = <<>>
    /\ product_id' = 0
    /\ product_record' = NoRecord
    /\ current_date' = 0
    /\ start' = NoStart
    /\ UNCHANGED sessions

\* mutant: 'exit' saves the basket before returning
AbortSessionSavesBasket ==
    /\ ReturnFromSales
    /\ out' = Writing(Silent, {"sales.csv", "inventory.csv"})
    /\ salesFile' = ToCsv(Concat(sales, new_sales))
    /\ UNCHANGED <<inventory, sales>>
\* 'exit' at the product-id or the quantity prompt (lines 278-280, 312-313):
\* sales_flow returns at once, nothing is printed, sales.csv is not written.
AbortSession ==
    /\ ReturnFromSales
    /\ out' = Writing(Silent, {"inventory.csv"})
    /\ UNCHANGED <<inventory, sales, salesFile>>

SaleProductIdOn(inp) ==
    /\ pc = "sale_pid"
    /\ IF Lower(Strip(inp)) = T_exit THEN
           AbortSession
       ELSE IF ~IntParses(Strip(inp)) THEN
           /\ out' = Say("error", "Invalid product id.")
           /\ UNCHANGED <<pc, username, storeVars, saleVars, histVars>>
       ELSE IF ProductFilter(inventory, IntValue(Strip(inp))) = {} THEN
           /\ product_id' = IntValue(Strip(inp))
           /\ out' = Say("error", "Product id not found in inventory.")
           /\ UNCHANGED <<pc, username, storeVars, bill_id, new_sales, product_record, current_date, histVars>>
       ELSE
           /\ product_id' = IntValue(Strip(inp))
           /\ product_record' = FirstRow(inventory, product_id')
           /\ current_date' = now
           /\ IF IsExpired(product_record', current_date')
              THEN /\ pc' = "sale_pid"
                   /\ out' = Say("error", "Product has expired.")
              ELSE IF PrintRaises(BoldGreen(product_record'.product_name))
              THEN Crash
              ELSE /\ pc' = "sale_qty"
                   /\ out' = Say("info", "Product name")
           /\ UNCHANGED <<username, storeVars, bill_id, new_sales, histVars>>
    /\ UNCHANGED <<clockVars, editVars>>
SaleProductId == \E inp \in SalePidInputs : SaleProductIdOn(inp)

SaleQuantityOn(inp) ==
    /\ pc = "sale_qty"
    /\ LET qty == IntValue(Strip(inp))
           available_qty == product_record.total_quantity
       IN
       IF Lower(Strip(inp)) = T_exit THEN
           AbortSession
       ELSE IF ~IntParses(Strip(inp)) THEN
           /\ out' = Say("error", "Invalid quantity.")
           /\ UNCHANGED <<pc, username, storeVars, saleVars, histVars>>
       ELSE IF ~QtyPositive(qty) THEN
           /\ out' = Say("error", "Quantity must be positive.")
           /\ UNCHANGED <<pc, username, storeVars, saleVars, histVars>>
       ELSE IF ~QtyAvailable(qty, available_qty) THEN
           /\ out' = Say("error", "Insufficient quantity in inventory.")
           /\ UNCHANGED <<pc, username, storeVars, saleVars, histVars>>
       ELSE IF PrintRaises(product_record.product_name) THEN
           \* the sale details (line 347); a name that raises here has raised
           \* at the product name (line 304) already
           /\ Crash
           /\ UNCHANGED <<username, storeVars, saleVars, histVars>>
       ELSE
           /\ new_sales = <<>> => sessions + edits < MaxOps
           /\ sessions' = IF new_sales = <<>> THEN sessions + 1 ELSE sessions
           /\ start' = start
           /\ new_sales' = Append(new_sales,
                  SaleRecord(bill_id, product_id, product_record, qty, current_date, username))
           /\ inventory' = Decrement(inventory, product_id, available_qty, qty)
           /\ pc' = "sale_another"
           /\ out' = Say("info", "Sale Details")
           /\ UNCHANGED <<username, sales, invFile, salesFile, bill_id, product_id,
                          product_record, current_date>>
    /\ UNCHANGED <<clockVars, editVars>>
SaleQuantity == \E inp \in SaleQtyInputs : SaleQuantityOn(inp)

Receipt(bid, lines) ==
    [bill_id |-> bid, kind |-> "receipt", msg |-> "Receipt",
     lines |-> lines, subtotal |-> Subtotal(lines), tax |-> Tax(Subtotal(lines)),
     final_total |-> FinalTotal(Subtotal(lines), Tax(Subtotal(lines))), wrote |-> {}]

\* "add another item?": 'Y' loops; anything else ends the loop, prints the
\* receipt, writes sales.csv (lines 372-408), returns, and main writes
\* inventory.csv (line 496).
SaleAnotherOn(inp) ==
    /\ pc = "sale_another"
    /\ IF Upper(Strip(inp)) = <<"Y">> THEN
           /\ Len(new_sales) < MaxLines
           /\ pc' = "sale_pid"
           /\ out' = Silent
           /\ UNCHANGED <<username, storeVars, saleVars, histVars>>
       ELSE IF \E i \in 1..Len(new_sales) : PrintRaises(new_sales[i].product_name) THEN
           \* the receipt rows (line 388); see the sale details
           /\ Crash
           /\ UNCHANGED <<username, storeVars, saleVars, histVars>>
       ELSE
           /\ IF new_sales # <<>>
              THEN /\ out' = Writing(Receipt(bill_id, new_sales), {"sales.csv", "inventory.csv"})
                   /\ salesFile' = ToCsv(Concat(sales, new_sales))
              ELSE /\ out' = Writing(Silent, {"inventory.csv"})
                   /\ UNCHANGED salesFile
           /\ ReturnFromSales
           /\ UNCHANGED <<inventory, sales>>
    /\ UNCHANGED <<clockVars, editVars>>
SaleAnother == \E inp \in SaleAnotherInputs : SaleAnotherOn(inp)

-----------------------------------------------------------------------------
(* main: the admin login (lines 462-478).                                  *)

AdminUserOn(inp) ==
    /\ pc = "admin_user"
    /\ IF Lower(Strip(inp)) = T_exit THEN
           /\ BackToLogin
           /\ out' = Silent
       ELSE
           /\ username' = Strip(inp)
           /\ pc' = "admin_pass"
           /\ out' = Silent
    /\ UNCHANGED <<clockVars, storeVars, saleVars, histVars, editVars>>
AdminUser == \E inp \in AdminUserInputs : AdminUserOn(inp)

AdminPassOn(inp) ==
    /\ pc = "admin_pass"
    /\ LET password == Strip(inp) IN
       IF Lower(password) = T_exit THEN
           /\ BackToLogin
           /\ out' = Silent
       ELSE IF AdminLoginOk(username, password) THEN
           /\ pc' = "admin_menu"
           /\ out' = Silent
           /\ UNCHANGED username
       ELSE
           /\ BackToLogin
           /\ out' = Say("error", "Invalid admin credentials.")
    /\ UNCHANGED <<clockVars, storeVars, saleVars, histVars, editVars>>
AdminPass == \E inp \in AdminPassInputs : AdminPassOn(inp)

-----------------------------------------------------------------------------
(* admin_flow (lines 39-65) and the queries (lines 67-185).                *)

LowQtyThreshold == 20

\* the rows of a frame selected by a mask, in frame order
RECURSIVE Select(_, _)
Select(inv, keep) ==
    IF inv = <<>> THEN <<>>
    ELSE IF Head(inv) \in keep THEN <<Head(inv)>> \o Select(Tail(inv), keep)
    ELSE Select(Tail(inv), keep)

ExpiredProducts(inv, cur) ==
    Select(inv, { inv[i] : i \in { j \in 1..Len(inv) :
                     NotNull(inv[j].expiry_date) /\ inv[j].expiry_date[1] < cur } })
\* mutant: a quantity equal to the threshold is listed too
LowQuantityProductsInclusive(inv) ==
    Select(inv, { inv[i] : i \in { j \in 1..Len(inv) : inv[j].total_quantity <= LowQtyThreshold } })
LowQuantityProducts(inv) ==
    Select(inv, { inv[i] : i \in { j \in 1..Len(inv) : inv[j].total_quantity < LowQtyThreshold } })

\* Table.add_row with the text cells of the rows: some cell raises
CellRaises(rows, cols) == \E i \in 1..Len(rows) : \E c \in cols : PrintRaises(rows[i][c])

Table(msg, rows) ==
    [bill_id |-> 0, kind |-> "table", msg |-> msg,
     lines |-> rows, subtotal |-> 0, tax |-> 0, final_total |-> 0, wrote |-> {}]

AdminMenuOn(inp) ==
    /\ pc = "admin_menu"
    /\ LET choice == Strip(inp) IN
       IF Lower(choice) = T_exit \/ choice = <<"0">> THEN
           \* admin_flow returns; main saves the inventory (line 476)
           /\ invFile' = ToCsv(inventory)
           /\ BackToLogin
           /\ out' = Writing(Silent, {"inventory.csv"})
           /\ UNCHANGED edits
       ELSE IF choice = <<"1">> THEN
           /\ IF ExpiredProducts(inventory, now) = <<>>
              THEN out' = Say("info", "No expired products found.") /\ UNCHANGED pc
              ELSE IF CellRaises(ExpiredProducts(inventory, now), {"product_name"})
              THEN Crash
              ELSE out' = Table("Expired Products:", ExpiredProducts(inventory, now))
                   /\ UNCHANGED pc
           /\ UNCHANGED <<username, invFile, edits>>
       ELSE IF choice = <<"2">> THEN
           /\ IF LowQuantityProducts(inventory) = <<>>
              THEN out' = Say("info", "No products with quantity less than 20.") /\ UNCHANGED pc
              ELSE IF CellRaises(LowQuantityProducts(inventory), {"product_name"})
              THEN Crash
              ELSE out' = Table("Products with Quantity < 20:", LowQuantityProducts(inventory))
                   /\ UNCHANGED pc
           /\ UNCHANGED <<username, invFile, edits>>
       ELSE IF choice = <<"3">> THEN
           /\ pc' = "access_choice"
           /\ out' = Silent
           /\ UNCHANGED <<username, invFile, edits>>
       ELSE IF choice = <<"4">> THEN
           /\ pc' = "upd_pid"
           /\ out' = Silent
           /\ UNCHANGED <<username, invFile, edits>>
       ELSE
           /\ out' = Say("error", "Invalid choice. Please try again.")
           /\ UNCHANGED <<pc, username, invFile, edits>>
    /\ UNCHANGED <<clockVars, inventory, sales, salesFile, saleVars, histVars,
                   pid, field_choice>>
AdminMenu == \E inp \in AdminMenuInputs : AdminMenuOn(inp)

\* the Panel with the fields of one record (lines 175-183, 207-215)
InfoRaises(rec) == PrintRaises(Lines(rec.product_name, rec.product_type))

AccessChoiceOn(inp) ==
    /\ pc = "access_choice"
    /\ LET choice == Strip(inp) IN
       IF Lower(choice) = T_exit \/ choice = <<"0">> THEN
           /\ pc' = "admin_menu"
           /\ out' = Silent
       ELSE IF choice = <<"1">> THEN
           IF inventory = <<>>
           THEN pc' = "admin_menu" /\ out' = Say("error", "Inventory is empty.")
           ELSE IF CellRaises(inventory, {"product_name", "product_type"})
           THEN Crash
           ELSE pc' = "admin_menu" /\ out' = Table("Inventory", inventory)
       ELSE IF choice = <<"2">> THEN
           /\ pc' = "access_pid"
           /\ out' = Silent
       ELSE
           /\ pc' = "admin_menu"
           /\ out' = Say("error", "Invalid choice.")
    /\ UNCHANGED <<clockVars, storeVars, saleVars, histVars, username, editVars>>
AccessChoice == \E inp \in AccessInputs : AccessChoiceOn(inp)

AccessPidOn(inp) ==
    /\ pc = "access_pid"
    /\ LET pid_input == Strip(inp) IN
       IF Lower(pid_input) = T_exit THEN
           pc' = "admin_menu" /\ out' = Silent
       ELSE IF ~IntParses(pid_input) THEN
           pc' = "admin_menu" /\ out' = Say("error", "Invalid product ID.")
       ELSE IF ProductFilter(inventory, IntValue(pid_input)) = {} THEN
           pc' = "admin_menu" /\ out' = Say("error", "Product not found.")
       ELSE IF InfoRaises(FirstRow(inventory, IntValue(pid_input))) THEN
           Crash
       ELSE
           /\ pc' = "admin_menu"
           /\ out' = Table("Product Info", <<FirstRow(inventory, IntValue(pid_input))>>)
    /\ UNCHANGED <<clockVars, storeVars, saleVars, histVars, username, editVars>>
AccessPid == \E inp \in AccessPidInputs : AccessPidOn(inp)

-----------------------------------------------------------------------------
(* update_product (lines 187-255).                                         *)

\* update_product returns to admin_flow: its locals are gone.
ReturnFromUpdate ==
    /\ pc' = "admin_menu"
    /\ pid' = 0
    /\ field_choice' = <<>>

UpdatePidOn(inp) ==
    /\ pc = "upd_pid"
    /\ LET pid_input == Strip(inp) IN
       IF Lower(pid_input) = T_exit THEN
           /\ ReturnFromUpdate
           /\ out' = Silent
       ELSE IF ~IntParses(pid_input) THEN
           /\ ReturnFromUpdate
           /\ out' = Say("error", "Invalid product ID.")
       ELSE IF ProductFilter(inventory, IntValue(pid_input)) = {} THEN
           /\ ReturnFromUpdate
           /\ out' = Say("error", "Product not found in inventory.")
       ELSE IF InfoRaises(FirstRow(inventory, IntValue(pid_input))) THEN
           /\ Crash
           /\ pid' = IntValue(pid_input)
           /\ UNCHANGED field_choice
       ELSE
           /\ pid' = IntValue(pid_input)
           /\ pc' = "upd_field"
           /\ out' = Table("Current Product Info", <<FirstRow(inventory, pid')>>)
           /\ UNCHANGED field_choice
    /\ UNCHANGED <<clockVars, storeVars, saleVars, histVars, username, edits>>
UpdatePid == \E inp \in UpdPidInputs : UpdatePidOn(inp)

FieldChoices == { <<"1">>, <<"2">>, <<"3">>, <<"4">>, <<"5">> }

UpdateFieldOn(inp) ==
    /\ pc = "upd_field"
    /\ IF Lower(Strip(inp)) = T_exit THEN
           /\ ReturnFromUpdate
           /\ out' = Silent
       ELSE IF Strip(inp) \notin FieldChoices THEN
           /\ ReturnFromUpdate
           /\ out' = Say("error", "Invalid choice.")
       ELSE
           /\ field_choice' = Strip(inp)
           /\ pc' = "upd_value"
           /\ out' = Silent
           /\ UNCHANGED pid
    /\ UNCHANGED <<clockVars, storeVars, saleVars, histVars, username, edits>>
UpdateField == \E inp \in UpdFieldInputs : UpdateFieldOn(inp)

\* Lines 229-253: the outcome of applying new_value to the chosen field:
\* ok with the new frame, or the parse error with the frame untouched.
Applied(inv) == [ok |-> TRUE, inventory |-> inv, msg |-> "Product updated successfully."]
Refused(inv, msg) == [ok |-> FALSE, inventory |-> inv, msg |-> msg]

\* mutant: the name is normalised like a login name
UpdateNameLowered(inv, id, new_value) == Applied(SetColumn(inv, id, "product_name", Lower(new_value)))
UpdateName(inv, id, new_value) == Applied(SetColumn(inv, id, "product_name", new_value))
UpdateType(inv, id, new_value) == Applied(SetColumn(inv, id, "product_type", new_value))
\* mutant: a quantity that does not parse is stored as 0
UpdateQuantityZeroOnError(inv, id, new_value) ==
    IF IntParses(new_value)
    THEN Applied(SetColumn(inv, id, "total_quantity", IntValue(new_value)))
    ELSE Refused(SetColumn(inv, id, "total_quantity", 0), "Invalid quantity. Update aborted.")
UpdateQuantity(inv, id, new_value) ==
    IF IntParses(new_value)
    THEN Applied(SetColumn(inv, id, "total_quantity", IntValue(new_value)))
    ELSE Refused(inv, "Invalid quantity. Update aborted.")
UpdateExpiry(inv, id, new_value) ==
    IF DateParses(new_value)
    THEN Applied(SetColumn(inv, id, "expiry_date", DateValue(new_value)))
    ELSE Refused(inv, "Invalid date format. Update aborted.")
UpdateMrp(inv, id, new_value) ==
    IF FloatParses(new_value)
    THEN Applied(SetColumn(inv, id, "mrp", FloatValue(new_value)))
    ELSE Refused(inv, "Invalid MRP. Update aborted.")

ApplyUpdate(inv, id, field, new_value) ==
    IF field = <<"1">> THEN UpdateName(inv, id, new_value)
    ELSE IF field = <<"2">> THEN UpdateQuantity(inv, id, new_value)
    ELSE IF field = <<"3">> THEN UpdateType(inv, id, new_value)
    ELSE IF field = <<"4">> THEN UpdateExpiry(inv, id, new_value)
    ELSE UpdateMrp(inv, id, new_value)

UpdateValueOn(inp) ==
    /\ pc = "upd_value"
    /\ LET new_value == Strip(inp)
           result == ApplyUpdate(inventory, pid, field_choice, new_value)
       IN
       /\ ReturnFromUpdate
       /\ IF Lower(new_value) = T_exit THEN
              /\ out' = Silent
              /\ UNCHANGED <<inventory, edits>>
          ELSE
              /\ result.ok => (edits < MaxEdits /\ sessions + edits < MaxOps)
              /\ edits' = IF result.ok THEN edits + 1 ELSE edits
              /\ inventory' = result.inventory
              /\ out' = Say(IF result.ok THEN "info" ELSE "error", result.msg)
    /\ UNCHANGED <<clockVars, sales, invFile, salesFile, saleVars, histVars, username>>
UpdateValue == \E inp \in UpdValueInputs(field_choice) : UpdateValueOn(inp)

\* Time passes while the program waits for input.  The clock is read when a
\* product id is entered (line 298) and when the expired products are listed
\* (line 71); a day that passes at any other prompt is a day that passes at
\* the next of these prompts.
Tick ==
    /\ pc \in { "sale_pid", "sale_qty", "admin_menu" }
    /\ ticks < MaxTicks
    /\ ticks' = ticks + 1
    /\ now' = now + OneDay
    /\ UNCHANGED <<pc, storeVars, saleVars, histVars, username, editVars, out>>

Next ==
    \/ RolePrompt
    \/ SalesUser
    \/ SalesPass
    \/ SaleProductId
    \/ SaleQuantity
    \/ SaleAnother
    \/ AdminUser
    \/ AdminPass
    \/ AdminMenu
    \/ AccessChoice
    \/ AccessPid
    \/ UpdatePid
    \/ UpdateField
    \/ UpdateValue
    \/ Tick

Spec == Init /\ [][Next]_vars

-----------------------------------------------------------------------------
(* Properties.                                                             *)

InSession == pc \in { "sale_pid", "sale_qty", "sale_another" }
AbortStep == pc \in { "sale_pid", "sale_qty" } /\ pc' = "role"
FinalizeStep == pc = "sale_another" /\ pc' = "role"
SessionStartStep == pc = "sales_pass" /\ pc' = "sale_pid"

Quantities(inv) == [i \in 1..Len(inv) |-> inv[i].total_quantity]

RECURSIVE MaxId(_)
MaxId(ledger) ==
    IF ledger = <<>> THEN 0
    ELSE IF Head(ledger).sales_id > MaxId(Tail(ledger)) THEN Head(ledger).sales_id
    ELSE MaxId(Tail(ledger))

RECURSIVE UnitsOf(_, _)
UnitsOf(lines, id) ==
    IF lines = <<>> THEN 0
    ELSE (IF Head(lines).product_id = id THEN Head(lines).quantity_purchased ELSE 0)
         + UnitsOf(Tail(lines), id)

RECURSIVE LineTotals(_)
LineTotals(lines) ==
    IF lines = <<>> THEN 0 ELSE Head(lines).total_price + LineTotals(Tail(lines))

\* C1: when a session with a non-empty basket finalizes, the stored ledger
\* afterwards is the stored ledger before followed by the basket lines in
\* order, so no line committed earlier is removed or changed.
C1_LedgerAppended ==
    [][ (FinalizeStep /\ new_sales # <<>>) => salesFile' = salesFile \o new_sales ]_vars

\* C2: the sale_id of every session is 1 + the largest sale_id stored in the
\* ledger at session start, or 1 if the ledger has no lines.
C2_SaleIdFromLedger ==
    InSession => bill_id = (IF start.salesFile = <<>> THEN 1 ELSE MaxId(start.salesFile) + 1)

\* C3: a session aborted with 'exit' after lines were added to the basket
\* persists nothing: back at the login prompt the stored inventory quantities
\* are those stored at session start.
C3_AbortPersistsNothing ==
    [][ (AbortStep /\ new_sales # <<>>) => Quantities(invFile') = Quantities(start.invFile) ]_vars

\* C4: a session aborted with 'exit' leaves the stored ledger as at session
\* start, emits no receipt and drops its basket; every session starts with
\* an empty basket, and the ledger is only ever written by a finalizing
\* session, with the startup ledger followed by that session's own basket.
C4_AbortDiscardsBasket ==
    [][ /\ AbortStep =>
             (salesFile' = start.salesFile /\ out'.kind # "receipt" /\ new_sales' = <<>>)
        /\ SessionStartStep => new_sales' = <<>>
        /\ salesFile' # salesFile => (FinalizeStep /\ salesFile' = sales \o new_sales)
      ]_vars
C4_Witness ==
    /\ pc = "role"
    /\ sessions = 1
    /\ salesFile = sales
    /\ Quantities(invFile) # Quantities(BaseFile)

\* C5: within a session every product's in-memory quantity is its quantity
\* at session start minus the units of the session's lines for it, and no
\* line is added for more units than the product has left.
C5_StockFollowsBasket ==
    [][ /\ InSession' =>
             \A i \in 1..Len(inventory') :
                 inventory'[i].total_quantity =
                     start'.inventory[i].total_quantity
                       - UnitsOf(new_sales', inventory'[i].Product_id)
        /\ Len(new_sales') > Len(new_sales) =>
             LET line == new_sales'[Len(new_sales')] IN
             line.quantity_purchased <= FirstRow(inventory, line.product_id).total_quantity
      ]_vars
C5_Witness ==
    /\ InSession
    /\ Len(new_sales) = 2
    /\ new_sales[1].product_id = new_sales[2].product_id
    /\ new_sales[1].quantity_purchased # new_sales[2].quantity_purchased

\* C6: entering the id of a product whose expiry date is present and earlier
\* than now is rejected: the session is back at the product-id prompt, the
\* basket and the inventory are unchanged; and no basket line is dated after
\* the expiry date of its product.
ExpiredIdEntered(inp) ==
    /\ IntParses(Strip(inp))
    /\ ProductFilter(inventory, IntValue(Strip(inp))) # {}
    /\ LET r == FirstRow(inventory, IntValue(Strip(inp))) IN
       r.expiry_date # <<>> /\ r.expiry_date[1] < now
C6_ExpiredNeverSold ==
    [][ /\ \A inp \in SalePidInputs :
             (SaleProductIdOn(inp) /\ ExpiredIdEntered(inp)) =>
                 (pc' = "sale_pid" /\ new_sales' = new_sales /\ inventory' = inventory
                  /\ out'.kind = "error")
        /\ \A i \in 1..Len(new_sales') :
             LET r == FirstRow(inventory', new_sales'[i].product_id) IN
             r.expiry_date = <<>> \/ new_sales'[i].date_of_purchase <= r.expiry_date[1]
      ]_vars
C6_Witness ==
    /\ pc = "sale_pid"
    /\ out.msg = "Product has expired."
    /\ new_sales # <<>>

\* C7: all lines of one session carry the same sale_id, the one fixed at
\* session start, whatever happens between the lines.
C7_OneSaleIdPerSession ==
    [][ /\ (InSession /\ InSession') => bill_id' = bill_id
        /\ \A i \in 1..Len(new_sales') : new_sales'[i].sales_id = bill_id'
      ]_vars
C7_Witness ==
    /\ InSession
    /\ Len(new_sales) = 2
    /\ new_sales[1].product_id # new_sales[2].product_id
    /\ new_sales[1].date_of_purchase # new_sales[2].date_of_purchase

\* C8: on every receipt subtotal is the sum of the line totals, tax is 0.05 x
\* subtotal and the final total is subtotal + tax = 1.05 x subtotal; 3 and 4
\* units at mrp 20 print 54.00, 72.00, 126.00, 6.30 and 132.30.
PenExample(lines) ==
    /\ Len(lines) = 2
    /\ lines[1].quantity_purchased = 3 /\ lines[2].quantity_purchased = 4
    /\ lines[1].mrp = 20 * Scale /\ lines[2].mrp = 20 * Scale
C8_ReceiptTotals ==
    out.kind = "receipt" =>
        /\ out.lines # <<>>
        /\ out.subtotal = LineTotals(out.lines)
        /\ out.subtotal % 20 = 0
        /\ out.tax = out.subtotal \div 20
        /\ out.final_total = out.subtotal + out.tax
        /\ out.final_total = 21 * (out.subtotal \div 20)
        /\ PenExample(out.lines) =>
             /\ Fmt2(out.lines[1].total_price) = 5400
             /\ Fmt2(out.lines[2].total_price) = 7200
             /\ Fmt2(out.subtotal) = 12600
             /\ Fmt2(out.tax) = 630
             /\ Fmt2(out.final_total) = 13230
C8_Witness == out.kind = "receipt" /\ PenExample(out.lines)

\* C9: every line of the basket and of the ledger has sale_price = 0.9 x mrp
\* and line_total = sale_price x quantity, and a basket line carries the mrp
\* of its product.
PricedRight(line) ==
    /\ 10 * line.store_price = 9 * line.mrp
    /\ line.total_price = line.store_price * line.quantity_purchased
C9_LinePrices ==
    /\ \A i \in 1..Len(new_sales) :
         /\ PricedRight(new_sales[i])
         /\ new_sales[i].mrp = FirstRow(inventory, new_sales[i].product_id).mrp
    /\ \A i \in 1..Len(salesFile) : PricedRight(salesFile[i])
C9_Witness ==
    /\ pc = "role"
    /\ Len(salesFile) > Len(sales)
    /\ salesFile[Len(salesFile)].mrp \notin { 20 * Scale, 100 * Scale }

\* C10: a value that does not parse for the chosen field (quantity, expiry
\* date, mrp) aborts the update with the error of that field, and the
\* inventory, in memory and stored, is unchanged.
Unparseable(field, new_value) ==
    /\ Lower(new_value) # T_exit
    /\ \/ field = <<"2">> /\ ~IntParses(new_value)
       \/ field = <<"4">> /\ ~DateParses(new_value)
       \/ field = <<"5">> /\ ~FloatParses(new_value)
FieldError(field) ==
    IF field = <<"2">> THEN "Invalid quantity. Update aborted."
    ELSE IF field = <<"4">> THEN "Invalid date format. Update aborted."
    ELSE "Invalid MRP. Update aborted."
C10_BadValueAborts ==
    [][ \A inp \in UpdValueInputs(field_choice) :
          (UpdateValueOn(inp) /\ Unparseable(field_choice, Strip(inp))) =>
              /\ inventory' = inventory
              /\ invFile' = invFile
              /\ out'.kind = "error"
              /\ out'.msg = FieldError(field_choice)
              /\ pc' = "admin_menu"
      ]_vars
C10_Witness ==
    /\ pc = "admin_menu"
    /\ out = Say("error", "Invalid quantity. Update aborted.")

\* C11: a successful update on a known product id overwrites exactly the
\* chosen field of the one record with that id: every other field of that
\* record and every other record are unchanged, and inventory.csv is not
\* written by the update.
Columns == { "Product_id", "product_name", "total_quantity", "product_type", "expiry_date", "mrp" }
FieldColumn(field) ==
    IF field = <<"1">> THEN "product_name"
    ELSE IF field = <<"2">> THEN "total_quantity"
    ELSE IF field = <<"3">> THEN "product_type"
    ELSE IF field = <<"4">> THEN "expiry_date"
    ELSE "mrp"
Entered(field, text) ==
    IF field \in { <<"1">>, <<"3">> } THEN text
    ELSE IF field = <<"2">> THEN IntValue(text)
    ELSE IF field = <<"4">> THEN DateValue(text)
    ELSE FloatValue(text)
UpdateSucceeded == "Product updated successfully."
C11_UpdateFrame ==
    [][ \A inp \in UpdValueInputs(field_choice) :
          (UpdateValueOn(inp) /\ out'.msg = UpdateSucceeded) =>
              /\ Cardinality({ i \in 1..Len(inventory) : inventory[i].Product_id = pid }) = 1
              /\ Len(inventory') = Len(inventory)
              /\ \A i \in 1..Len(inventory) : \A col \in Columns :
                    IF inventory[i].Product_id = pid /\ col = FieldColumn(field_choice)
                    THEN inventory'[i][col] = Entered(field_choice, Strip(inp))
                    ELSE inventory'[i][col] = inventory[i][col]
              /\ invFile' = invFile
              /\ "inventory.csv" \notin out'.wrote
      ]_vars
C11_Witness ==
    /\ pc = "admin_menu"
    /\ out.msg = UpdateSucceeded
    /\ inventory[2].total_quantity = 20
    /\ inventory[1] = ReadInventory(BaseFile)[1]
    /\ invFile = BaseFile

\* C12 (as stated): for the name and type fields the update stores every
\* entered text unmodified: after the update the field equals exactly the
\* entered text, also for texts that other prompts treat as keywords.
TextField == field_choice \in { <<"1">>, <<"3">> }
C12_StoredUnmodified ==
    [][ \A inp \in UpdValueInputs(field_choice) :
          (UpdateValueOn(inp) /\ TextField) =>
              FirstRow(inventory', pid)[FieldColumn(field_choice)] = inp
      ]_vars

\* C12 (amended): for the name and type fields the update stores the entered
\* text with its leading and trailing blanks removed and reports success,
\* unless that text is 'exit' in any letter case: then the update is
\* cancelled, nothing is printed and the inventory is unchanged.
C12_StoredStripped ==
    [][ \A inp \in UpdValueInputs(field_choice) :
          (UpdateValueOn(inp) /\ TextField) =>
              /\ pc' = "admin_menu"
              /\ IF Lower(Strip(inp)) = T_exit
                 THEN inventory' = inventory /\ out' = Silent
                 ELSE /\ FirstRow(inventory', pid)[FieldColumn(field_choice)] = Strip(inp)
                      /\ out'.msg = UpdateSucceeded
      ]_vars
C12_Witness ==
    /\ pc = "admin_menu"
    /\ out.msg = UpdateSucceeded
    /\ inventory[1].product_name = <<"I","n","k">>

\* C13: inventory.csv is written only when an admin or sales flow returns
\* to main's loop, once per return, with the inventory then in memory; no
\* step inside a flow writes or changes it, whatever is edited or sold in
\* memory meanwhile.
AdminFlow == { "admin_menu", "access_choice", "access_pid", "upd_pid", "upd_field", "upd_value" }
InFlow == InSession \/ pc \in AdminFlow
FlowReturnStep == InFlow /\ pc' = "role"
Denotes(cell, value) ==
    \/ cell = <<>> /\ value = <<>>
    \/ DateShape(cell) /\ value = DateValue(cell)
SameRecords(file, frame) ==
    /\ Len(file) = Len(frame)
    /\ \A i \in 1..Len(file) :
          /\ \A col \in Columns \ {"expiry_date"} : file[i][col] = frame[i][col]
          /\ Denotes(file[i].expiry_date, frame[i].expiry_date)
C13_SavedAtReturnOnly ==
    [][ IF FlowReturnStep
        THEN "inventory.csv" \in out'.wrote /\ SameRecords(invFile', inventory)
             /\ inventory' = inventory
        ELSE "inventory.csv" \notin out'.wrote /\ invFile' = invFile
      ]_vars
C13_Witness ==
    /\ pc = "admin_menu"
    /\ sessions = 1
    /\ edits = 1
    /\ ~SameRecords(invFile, inventory)
    /\ Quantities(invFile) # Quantities(BaseFile)

\* C14: the admin queries (expired check, low-stock check with threshold 20,
\* view all, view by id) never change the inventory or the ledger, in memory
\* or stored; they list the records that qualify, and for an empty result or
\* an unknown id they print their message and are back at the admin menu.
Listed(o) == { o.lines[k] : k \in 1..Len(o.lines) }
Rows(inv, keep) == { inv[i] : i \in { j \in 1..Len(inv) : keep[j] } }
ExpiredMask == [i \in 1..Len(inventory) |->
                  inventory[i].expiry_date # <<>> /\ inventory[i].expiry_date[1] < now]
LowMask == [i \in 1..Len(inventory) |-> inventory[i].total_quantity < 20]
AtMenuWith(kind, msg) == pc' = "admin_menu" /\ out' = Say(kind, msg)
C14_QueriesReadOnly ==
    [][ /\ \A inp \in AdminMenuInputs :
             (AdminMenuOn(inp) /\ Strip(inp) = <<"1">>) =>
                 /\ UNCHANGED storeVars
                 /\ Rows(inventory, ExpiredMask) = {} =>
                        AtMenuWith("info", "No expired products found.")
                 /\ out'.kind = "table" => Listed(out') = Rows(inventory, ExpiredMask)
        /\ \A inp \in AdminMenuInputs :
             (AdminMenuOn(inp) /\ Strip(inp) = <<"2">>) =>
                 /\ UNCHANGED storeVars
                 /\ Rows(inventory, LowMask) = {} =>
                        AtMenuWith("info", "No products with quantity less than 20.")
                 /\ out'.kind = "table" => Listed(out') = Rows(inventory, LowMask)
        /\ \A inp \in AccessInputs :
             AccessChoiceOn(inp) =>
                 /\ UNCHANGED storeVars
                 /\ (Strip(inp) = <<"1">> /\ inventory = <<>>) =>
                        AtMenuWith("error", "Inventory is empty.")
                 /\ out'.kind = "table" => out'.lines = inventory
        /\ \A inp \in AccessPidInputs :
             AccessPidOn(inp) =>
                 /\ UNCHANGED storeVars
                 /\ (IntParses(Strip(inp))
                     /\ \A i \in 1..Len(inventory) : inventory[i].Product_id # IntValue(Strip(inp))) =>
                        AtMenuWith("error", "Product not found.")
                 /\ out'.kind = "table" =>
                        /\ Len(out'.lines) = 1
                        /\ out'.lines[1].Product_id = IntValue(Strip(inp))
                        /\ out'.lines[1] \in Rows(inventory, [i \in 1..Len(inventory) |-> TRUE])
      ]_vars
C14_Witness ==
    /\ pc = "admin_menu"
    /\ out = Say("info", "No expired products found.")
    /\ inventory # <<>>
    /\ ticks = 1
    /\ edits = 1
    /\ Rows(inventory, ExpiredMask) = {}

\* C15: from every prompt and for every operator input the program moves to
\* another prompt; it terminates only on 'exit' at the role-selection prompt.
Prompts == { "role", "admin_user", "admin_pass", "sales_user", "sales_pass",
             "sale_pid", "sale_qty", "sale_another" } \cup AdminFlow
ExitAtRole == \E inp \in RoleInputs : Lower(Strip(inp)) = T_exit /\ RolePromptOn(inp)
C15_AlwaysAnotherPrompt ==
    [][ pc' \in Prompts \/ (pc' = "done" /\ ExitAtRole) ]_vars

\* C16: the admin flow is entered only from the admin password prompt with
\* the identity and the credential of the admin, the sales flow only from
\* the sales password prompt with those of a sales representative (as the
\* program reads them: blanks trimmed, and for the sales login letter case
\* ignored); a failed login or 'exit' at a credential prompt leads back to
\* the role prompt; no step at a credential prompt changes the inventory or
\* the ledger, in memory or stored.
CredentialPrompts == { "admin_user", "admin_pass", "sales_user", "sales_pass" }
SalesReps == { T_user1, <<"u","s","e","r","2">> }
C16_LoginGuardsFlows ==
    [][ /\ (pc \notin AdminFlow /\ pc' \in AdminFlow) =>
              (pc = "admin_pass" /\ username = T_admin)
        /\ (~InSession /\ InSession') =>
              (pc = "sales_pass" /\ username \in SalesReps)
        /\ \A inp \in AdminPassInputs : AdminPassOn(inp) =>
              IF username = T_admin /\ Strip(inp) = T_admin
              THEN pc' = "admin_menu"
              ELSE pc' = "role" /\ (Lower(Strip(inp)) # T_exit => out'.kind = "error")
        /\ \A inp \in SalesPassInputs : SalesPassOn(inp) =>
              IF username \in SalesReps /\ Lower(Strip(inp)) = T_user
              THEN pc' = "sale_pid"
              ELSE pc' = "role" /\ (Lower(Strip(inp)) # T_exit => out'.kind = "error")
        /\ \A inp \in AdminUserInputs : AdminUserOn(inp) =>
              pc' = (IF Lower(Strip(inp)) = T_exit THEN "role" ELSE "admin_pass")
        /\ \A inp \in SalesUserInputs : SalesUserOn(inp) =>
              pc' = (IF Lower(Strip(inp)) = T_exit THEN "role" ELSE "sales_pass")
        /\ pc \in CredentialPrompts => UNCHANGED storeVars
      ]_vars
C16_Witness ==
    /\ pc = "role"
    /\ out = Say("error", "Invalid admin credentials.")
    /\ edits = 1
    /\ sessions = 1

\* C17: in a checkout session a product id that is no integer or names no
\* record leaves the session at the product-id prompt, and a quantity that
\* is no integer, not positive or more than the stock of the product leaves
\* it at the quantity prompt for the same product; the basket and every
\* quantity are unchanged, and nothing but the printed error (and the id
\* just parsed) differs from the state before, so the same prompt accepts
\* any number of retries.
NoSuchId(id) == \A i \in 1..Len(inventory) : inventory[i].Product_id # id
StockOf(id) == FirstRow(inventory, id).total_quantity
SameSession ==
    /\ UNCHANGED <<pc, clockVars, storeVars, bill_id, new_sales, histVars, username, editVars>>
    /\ out'.kind = "error"
C17_RetriesInPlace ==
    [][ /\ \A inp \in SalePidInputs :
             (/\ SaleProductIdOn(inp)
              /\ Lower(Strip(inp)) # T_exit
              /\ (~IntParses(Strip(inp)) \/ NoSuchId(IntValue(Strip(inp))))) =>
                 (pc' = "sale_pid" /\ SameSession)
        /\ \A inp \in SaleQtyInputs :
             (/\ SaleQuantityOn(inp)
              /\ Lower(Strip(inp)) # T_exit
              /\ (\/ ~IntParses(Strip(inp))
                  \/ IntValue(Strip(inp)) <= 0
                  \/ IntValue(Strip(inp)) > StockOf(product_id))) =>
                 (pc' = "sale_qty" /\ SameSession /\ UNCHANGED <<product_id, product_record>>)
      ]_vars
C17_Witness ==
    /\ pc = "sale_qty"
    /\ out = Say("error", "Insufficient quantity in inventory.")
    /\ new_sales # <<>>
    /\ product_id = new_sales[1].product_id

\* C18: as long as no admin update was made, every quantity of the
\* inventory, in memory and stored, is a non-negative integer, whatever
\* checkout sessions were finalized or aborted; and no step of a checkout
\* session makes a quantity negative.
NonNegative(inv) == \A i \in 1..Len(inv) : inv[i].total_quantity \in Nat
C18_QuantitiesNonNegative ==
    [][ /\ edits' = 0 => (NonNegative(inventory') /\ NonNegative(invFile'))
        /\ (InSession /\ NonNegative(inventory)) => NonNegative(inventory')
      ]_vars
C18_Witness ==
    /\ pc = "role"
    /\ edits = 0
    /\ sessions = 2
    /\ invFile # <<>>
    /\ invFile[1].total_quantity = 0

\* C19: with no admin update made, whenever the program is at the role
\* prompt, for every product the units removed from inventory.csv since the
\* program started equal the units of that product on the lines of sales.csv
\* that were sold since the program started.
SoldSinceStart == SubSeq(salesFile, Len(sales) + 1, Len(salesFile))
C19_StoredUnitsMatchLedger ==
    (pc = "role" /\ edits = 0) =>
        \A i \in 1..Len(invFile) :
            BaseFile[i].total_quantity - invFile[i].total_quantity
                = UnitsOf(SoldSinceStart, invFile[i].Product_id)

\* C20 (as stated): whenever the program is at the role prompt, the stored
\* inventory equals the inventory in memory.
C20_StoredEqualsMemory ==
    pc = "role" => SameRecords(invFile, inventory)

\* C20 (amended): whenever the program is at the role prompt, the inventory
\* in memory equals the stored inventory with every expiry cell that is not
\* a date taken as absent.
DenotesCoerced(cell, value) ==
    IF DateShape(cell) THEN value = DateValue(cell) ELSE value = <<>>
SameRecordsCoerced(file, frame) ==
    /\ Len(file) = Len(frame)
    /\ \A i \in 1..Len(file) :
          /\ \A col \in Columns \ {"expiry_date"} : file[i][col] = frame[i][col]
          /\ DenotesCoerced(file[i].expiry_date, frame[i].expiry_date)
C20_StoredEqualsMemoryAsLoaded ==
    pc = "role" => SameRecordsCoerced(invFile, inventory)
C20_Witness ==
    /\ pc = "role"
    /\ edits = 1
    /\ sessions = 1
    /\ out.kind = "error"
    /\ Quantities(invFile) # Quantities(BaseFile)
    /\ invFile[1].expiry_date # BaseFile[1].expiry_date

\* C21: a session at the quantity prompt for a product leaves that prompt
\* only by 'exit', which ends the session without a receipt and without
\* writing the ledger, or by an integer quantity between 1 and the current
\* stock of the product, which commits a line; so with a stock of 0 or less
\* only 'exit' leaves the prompt, and the session cannot finalize from
\* there, whatever lines it has committed.
InStock(text) ==
    /\ IntParses(text)
    /\ IntValue(text) >= 1
    /\ IntValue(text) <= StockOf(product_id)
C21_QuantityPromptExits ==
    [][ pc = "sale_qty" =>
          /\ pc' \in { "sale_qty", "role", "sale_another" }
          /\ \A inp \in SaleQtyInputs : SaleQuantityOn(inp) =>
                /\ pc' = "role" <=> Lower(Strip(inp)) = T_exit
                /\ pc' = "sale_another" <=> (Lower(Strip(inp)) # T_exit /\ InStock(Strip(inp)))
                /\ pc' = "sale_another" => Len(new_sales') = Len(new_sales) + 1
          /\ pc' = "role" =>
                (salesFile' = salesFile /\ out'.kind # "receipt" /\ new_sales' = <<>>)
          /\ StockOf(product_id) <= 0 => pc' \in { "sale_qty", "role" }
      ]_vars
C21_Witness ==
    /\ pc = "sale_qty"
    /\ new_sales # <<>>
    /\ StockOf(product_id) = 0
    /\ out = Say("error", "Insufficient quantity in inventory.")

====
